---- MODULE Spec2Model ----
(***************************************************************************)
(* Model of src/main.rs: the function-call marker parser, the calculator   *)
(* handler, the recursive dispatch loop handle_chat_response and the       *)
(* interactive loop of main.                                               *)
(*                                                                         *)
(* Texts are sequences of lexemes (short strings).  A lexeme is the        *)
(* literal marker prefix, one identifier chunk, one digit, one JSON string *)
(* literal, or one punctuation character.  The regex and the JSON reader   *)
(* work on these sequences position by position.                           *)
(*                                                                         *)
(* What the model leaves abstract: the rendering of the parameter value in *)
(* the first line handle_calculate prints (the line is recorded, its text  *)
(* is not); f64 rounding (numbers are exact quotients); the JSON forms     *)
(* other than objects, string literals and non-negative integers; the      *)
(* HTTP exchange itself, of which only "a response with these choices      *)
(* arrived" and "send or decode failed" are kept.                          *)
(***************************************************************************)
EXTENDS Integers, Sequences, FiniteSets, TLC

(***************************************************************************)
(* Bounds of the model.                                                    *)
(***************************************************************************)
\* largest number of follow-up requests the endpoint lets one turn reach
MaxFollowUps == 2
\* fractional digits produced when a quotient is rendered
FracDigits == 4

(***************************************************************************)
(* Lexemes.                                                                *)
(***************************************************************************)
FnPrefix == "<function="

Digits == {"0", "1", "2", "3", "4", "5", "6", "7", "8", "9"}

Idents == {"calculate", "lookup", "hello", "exit", "EXIT", "Exit"}

\* \w of the regex: letters, digits, underscore
WordLex == Idents \cup Digits \cup {"_"}

Ws == {" ", "\n"}

\* JSON string literals, written with their quotes
StrLex == {"\"a\"", "\"b\"", "\"operation\"", "\"+\"", "\"-\"", "\"*\"",
           "\"/\"", "\"%\"", "\"x\""}

StrVal(l) ==
  CASE l = "\"a\"" -> "a"
    [] l = "\"b\"" -> "b"
    [] l = "\"operation\"" -> "operation"
    [] l = "\"+\"" -> "+"
    [] l = "\"-\"" -> "-"
    [] l = "\"*\"" -> "*"
    [] l = "\"/\"" -> "/"
    [] l = "\"%\"" -> "%"
    [] OTHER -> "x"

DigitVal(d) ==
  CASE d = "0" -> 0 [] d = "1" -> 1 [] d = "2" -> 2 [] d = "3" -> 3
    [] d = "4" -> 4 [] d = "5" -> 5 [] d = "6" -> 6 [] d = "7" -> 7
    [] d = "8" -> 8 [] OTHER -> 9

DigitLex(n) ==
  CASE n = 0 -> "0" [] n = 1 -> "1" [] n = 2 -> "2" [] n = 3 -> "3"
    [] n = 4 -> "4" [] n = 5 -> "5" [] n = 6 -> "6" [] n = 7 -> "7"
    [] n = 8 -> "8" [] OTHER -> "9"

\* the value of x is computed once and handed to F
Bind(x, F(_)) == CHOOSE r \in {F(v) : v \in {x}} : TRUE

(***************************************************************************)
(* FUNCTION_REGEX  <function=(\w+)(\{.*?\})>                               *)
(***************************************************************************)
RECURSIVE WordEnd(_, _)
\* first position at or after j that is not a \w lexeme (greedy \w+)
WordEnd(s, j) ==
  IF j <= Len(s) /\ s[j] \in WordLex THEN WordEnd(s, j + 1) ELSE j

RECURSIVE LazyClose_firstBrace(_, _)
\* variant: the span ends at the first "}" whatever follows it
LazyClose_firstBrace(s, j) ==
  IF j + 1 > Len(s) THEN 0
  ELSE IF s[j] = "}" THEN (IF s[j + 1] = ">" THEN j ELSE 0)
  ELSE IF s[j] = "\n" THEN 0
  ELSE LazyClose_firstBrace(s, j + 1)

RECURSIVE LazyClose(_, _)
\* lazy .*? followed by \} and > : the first m >= j with s[m] = "}" and
\* s[m+1] = ">", every lexeme before it being matched by '.', which does
\* not match a newline; 0 when there is none
LazyClose(s, j) ==
  IF j + 1 > Len(s) THEN 0
  ELSE IF s[j] = "}" /\ s[j + 1] = ">" THEN j
  ELSE IF s[j] = "\n" THEN 0
  ELSE LazyClose(s, j + 1)

\* the match attempted at start position i
NoMatch == [ok |-> FALSE, name |-> <<>>, params |-> <<>>, start |-> 0, end |-> 0]

MatchAt(s, i) ==
  Bind(WordEnd(s, i + 1), LAMBDA k :
    Bind(IF k <= Len(s) /\ s[k] = "{" THEN LazyClose(s, k + 1) ELSE 0, LAMBDA m :
      IF s[i] = FnPrefix /\ k > i + 1 /\ m > 0
      THEN [ok |-> TRUE, name |-> SubSeq(s, i + 1, k - 1),
            params |-> SubSeq(s, k, m), start |-> i, end |-> m + 1]
      ELSE NoMatch))

RECURSIVE CapturesFrom(_, _)
CapturesFrom(s, i) ==
  IF i > Len(s) THEN NoMatch
  ELSE Bind(MatchAt(s, i), LAMBDA m : IF m.ok THEN m ELSE CapturesFrom(s, i + 1))

\* variant: the rightmost match
Captures_last(s) ==
  LET starts == {i \in 1..Len(s) : MatchAt(s, i).ok}
  IN IF starts = {} THEN NoMatch
     ELSE MatchAt(s, CHOOSE i \in starts : \A j \in starts : j <= i)

\* FUNCTION_REGEX.captures(text): the leftmost match
Captures(s) == CapturesFrom(s, 1)

(***************************************************************************)
(* serde_json::from_str::<Value> on the lexemes the model uses: objects,   *)
(* string literals and non-negative integer literals, with whitespace.     *)
(***************************************************************************)
NoValue == [t |-> "none", n |-> 0, s |-> "", m |-> <<>>]
NumValue(n) == [t |-> "num", n |-> n, s |-> "", m |-> <<>>]
StringValue(s) == [t |-> "str", n |-> 0, s |-> s, m |-> <<>>]
ObjValue(m) == [t |-> "obj", n |-> 0, s |-> "", m |-> m]

ParseFail == [ok |-> FALSE, val |-> NoValue, next |-> 0]
ParseOk(v, n) == [ok |-> TRUE, val |-> v, next |-> n]

RECURSIVE SkipWs(_, _)
SkipWs(s, i) == IF i <= Len(s) /\ s[i] \in Ws THEN SkipWs(s, i + 1) ELSE i

RECURSIVE DigitEnd(_, _)
DigitEnd(s, j) ==
  IF j <= Len(s) /\ s[j] \in Digits THEN DigitEnd(s, j + 1) ELSE j

RECURSIVE DigitsVal(_)
DigitsVal(ds) ==
  IF ds = <<>> THEN 0
  ELSE 10 * DigitsVal(SubSeq(ds, 1, Len(ds) - 1)) + DigitVal(ds[Len(ds)])

\* a number: 0, or a digit run without a leading zero
ParseNumber(s, i) ==
  LET e == DigitEnd(s, i)
  IN IF e = i THEN ParseFail
     ELSE IF s[i] = "0" /\ e > i + 1 THEN ParseFail
     ELSE ParseOk(NumValue(DigitsVal(SubSeq(s, i, e - 1))), e)

\* Map::insert: a later member with the same key replaces the earlier one
MapInsert(m, k, v) ==
  [x \in (DOMAIN m) \cup {k} |-> IF x = k THEN v ELSE m[x]]

RECURSIVE ParseValue(_, _)
RECURSIVE ParseMembers(_, _, _)

\* the members of an object, the key expected at position at
ParseMembers(s, at, members) ==
  Bind(<<at, members>>, LAMBDA a :
    IF a[1] > Len(s) \/ s[a[1]] \notin StrLex THEN ParseFail
    ELSE Bind(SkipWs(s, a[1] + 1), LAMBDA k :
      IF k > Len(s) \/ s[k] # ":" THEN ParseFail
      ELSE Bind(ParseValue(s, k + 1), LAMBDA v :
        IF ~v.ok THEN ParseFail
        ELSE Bind(SkipWs(s, v.next), LAMBDA n :
          IF n > Len(s) THEN ParseFail
          ELSE IF s[n] = ","
               THEN ParseMembers(s, SkipWs(s, n + 1),
                                 MapInsert(a[2], StrVal(s[a[1]]), v.val))
          ELSE IF s[n] = "}"
               THEN ParseOk(ObjValue(MapInsert(a[2], StrVal(s[a[1]]), v.val)), n + 1)
          ELSE ParseFail))))

ParseValue(s, i) ==
  Bind(SkipWs(s, i), LAMBDA j :
    IF j > Len(s) THEN ParseFail
    ELSE IF s[j] = "{"
         THEN Bind(SkipWs(s, j + 1), LAMBDA k :
                IF k <= Len(s) /\ s[k] = "}"
                THEN ParseOk(ObjValue(<<>>), k + 1)
                ELSE ParseMembers(s, k, <<>>))
    ELSE IF s[j] \in StrLex THEN ParseOk(StringValue(StrVal(s[j])), j + 1)
    ELSE IF s[j] \in Digits THEN ParseNumber(s, j)
    ELSE ParseFail)

\* from_str: one value, then nothing but whitespace
FromStr(s) ==
  Bind(ParseValue(s, 1), LAMBDA v :
    IF v.ok /\ SkipWs(s, v.next) > Len(s) THEN v ELSE ParseFail)

(***************************************************************************)
(* Display of an f64.  A number is the exact quotient num/den, den > 0.    *)
(* Whole numbers print without a fraction; a quotient prints its decimal   *)
(* expansion, cut after FracDigits digits.                                 *)
(***************************************************************************)
Abs(n) == IF n < 0 THEN 0 - n ELSE n

RECURSIVE NatLex(_)
NatLex(n) ==
  IF n < 10 THEN <<DigitLex(n)>> ELSE NatLex(n \div 10) \o <<DigitLex(n % 10)>>

RECURSIVE FracLex(_, _, _)
FracLex(r, den, k) ==
  IF r = 0 \/ k = 0 THEN <<>>
  ELSE <<DigitLex((10 * r) \div den)>> \o FracLex((10 * r) % den, den, k - 1)

FmtF64(num, den) ==
  Bind(<<num, den>>, LAMBDA q :
    (IF q[1] < 0 THEN <<"-">> ELSE <<>>)
      \o NatLex(Abs(q[1]) \div q[2])
      \o (IF Abs(q[1]) % q[2] = 0 THEN <<>>
          ELSE <<".">> \o FracLex(Abs(q[1]) % q[2], q[2], FracDigits)))

(***************************************************************************)
(* handle_calculate                                                        *)
(***************************************************************************)
\* params.get(key)
Get(params, key) ==
  IF params.t = "obj" /\ key \in DOMAIN params.m THEN params.m[key] ELSE NoValue

\* the text returned when a, b or operation is absent or of the wrong type
InvalidParamsText == <<"Invalid parameters for calculation">>

DivisionByZeroText == <<"Error:", " Division by zero">>

UnknownOperationText(op) == <<"Error:", " Unknown operation '", op, "'">>

Ev(kind, text) == [kind |-> kind, text |-> text]

\* variant: the difference is taken the other way round
Arith_reversed(a, op, b) ==
  CASE op = "+" -> <<a + b, 1>>
    [] op = "-" -> <<b - a, 1>>
    [] op = "*" -> <<a * b, 1>>
    [] OTHER -> <<a, b>>

\* a op b as the quotient <<numerator, denominator>>
Arith(a, op, b) ==
  CASE op = "+" -> <<a + b, 1>>
    [] op = "-" -> <<a - b, 1>>
    [] op = "*" -> <<a * b, 1>>
    [] OTHER -> <<a, b>>

\* result: the returned text and the lines the handler printed
handle_calculate(params) ==
  Bind(<<Get(params, "a"), Get(params, "b"), Get(params, "operation")>>, LAMBDA g :
    LET a == g[1]
        b == g[2]
        op == g[3]
        called == Ev("fn_called", <<>>)
    IN IF a.t = "num" /\ b.t = "num" /\ op.t = "str"
       THEN IF op.s \in {"+", "-", "*"} \/ (op.s = "/" /\ b.n # 0)
            THEN Bind(<<"The result of ">> \o FmtF64(a.n, 1) \o <<" ", op.s, " ">>
                        \o FmtF64(b.n, 1) \o <<" is ">>
                        \o FmtF64(Arith(a.n, op.s, b.n)[1], Arith(a.n, op.s, b.n)[2]),
                      LAMBDA output :
                        [text |-> output,
                         prints |-> <<called, Ev("fn_output", output)>>])
            ELSE IF op.s = "/"
            THEN [text |-> DivisionByZeroText, prints |-> <<called>>]
            ELSE [text |-> UnknownOperationText(op.s), prints |-> <<called>>]
       ELSE [text |-> InvalidParamsText,
             prints |-> <<called, Ev("fn_error", InvalidParamsText)>>])

\* FUNCTION_REGISTRY: name -> handler
FUNCTION_REGISTRY == [n \in {<<"calculate">>} |-> "handle_calculate"]

\* handler(params) for a handler taken from the registry
CallHandler(h, params) == handle_calculate(params)

(***************************************************************************)
(* Messages, requests, choices.                                            *)
(***************************************************************************)
Message(role, content) == [role |-> role, content |-> content]

\* Option<Message> and Option<String> of struct Choice
NoMessage == [some |-> FALSE, role |-> "", content |-> <<>>]
SomeMessage(content) == [some |-> TRUE, role |-> "assistant", content |-> content]
NoText == [some |-> FALSE, v |-> <<>>]
SomeText(t) == [some |-> TRUE, v |-> t]

Choice(message, text) == [message |-> message, text |-> text]

ModelName == "llama-3.3-70b-versatile"

SystemPrompt == <<"You are a helpful assistant with access to a calculator.">>

\* the tools vector built in main
Tools == <<[tool_type |-> "function", name |-> "calculate"]>>

ChatRequest(messages, tools) ==
  [model |-> ModelName, messages |-> messages, tools |-> tools,
   tool_choice |-> "auto"]

NoRequest == [model |-> "", messages |-> <<>>, tools |-> <<>>, tool_choice |-> ""]

\* the request main builds from the trimmed input line
InitialRequest(input) ==
  ChatRequest(<<Message("system", SystemPrompt), Message("user", input)>>, Tools)

\* variant: the follow-up carries the system prompt and the tools along
FollowUpRequest_carry(result) ==
  ChatRequest(<<Message("system", SystemPrompt), Message("user", result)>>, Tools)

\* the request handle_chat_response builds from a handler result
FollowUpRequest(result) == ChatRequest(<<Message("user", result)>>, <<>>)

(***************************************************************************)
(* One iteration of the for loop of handle_chat_response, up to the point  *)
(* where it either finishes the choice or sends the follow-up request.     *)
(*   outcome  "dispatch" | "notfound" | "invalid" | "answer" | "text"      *)
(*            | "skip"                                                     *)
(*   events   the lines printed, in order                                  *)
(*   request  the follow-up request of outcome "dispatch"                  *)
(***************************************************************************)
Step(outcome, events, request) ==
  [outcome |-> outcome, events |-> events, request |-> request]

\* variant: a marker-free message is dropped instead of printed
AnswerStep_silent(content) == Step("answer", <<>>, NoRequest)

\* line 148: no marker in the message content
AnswerStep(content) == Step("answer", <<Ev("chatbot", content)>>, NoRequest)

\* line 151: no message, the raw text is printed as it is
TextStep(text) == Step("text", <<Ev("chatbot", text)>>, NoRequest)

\* lines 110-111
Requested(cap) == <<Ev("requested", cap.name), Ev("with_params", cap.params)>>

\* variant: a span that is not JSON still reaches the handler, with null
InvalidStep_null(cap) ==
  Step("dispatch",
       Requested(cap) \o handle_calculate(NoValue).prints \o <<Ev("executed", <<>>)>>,
       FollowUpRequest(handle_calculate(NoValue).text))

\* line 144: the parameter span is not JSON
InvalidStep(cap) ==
  Step("invalid", Requested(cap) \o <<Ev("invalid_params", cap.params)>>, NoRequest)

\* variant: an unregistered name is passed over without a diagnostic
NotFoundStep_silent(cap) == Step("notfound", Requested(cap), NoRequest)

\* line 141: the name is not in the registry
NotFoundStep(cap) ==
  Step("notfound", Requested(cap) \o <<Ev("not_found", cap.name)>>, NoRequest)

\* variant: a result that reports an error ends the choice
DispatchStep_strict(cap, params) ==
  Bind(CallHandler(FUNCTION_REGISTRY[cap.name], params), LAMBDA r :
    IF Head(r.text) \in {"Error:", "Invalid parameters for calculation"}
    THEN Step("invalid", Requested(cap) \o r.prints, NoRequest)
    ELSE Step("dispatch", Requested(cap) \o r.prints \o <<Ev("executed", <<>>)>>,
              FollowUpRequest(r.text)))

\* lines 115-128: call the handler, build the follow-up request
DispatchStep(cap, params) ==
  Bind(CallHandler(FUNCTION_REGISTRY[cap.name], params), LAMBDA r :
    Step("dispatch", Requested(cap) \o r.prints \o <<Ev("executed", <<>>)>>,
         FollowUpRequest(r.text)))

\* variant: the raw text is looked at first
InspectChoice_textFirst(c) ==
  IF c.text.some
  THEN TextStep(c.text.v)
  ELSE IF c.message.some
  THEN Bind(Captures(c.message.content), LAMBDA cap :
         IF cap.ok
         THEN Bind(FromStr(cap.params), LAMBDA parsed :
                IF parsed.ok
                THEN IF cap.name \in DOMAIN FUNCTION_REGISTRY
                     THEN DispatchStep(cap, parsed.val)
                     ELSE NotFoundStep(cap)
                ELSE InvalidStep(cap))
         ELSE AnswerStep(c.message.content))
  ELSE Step("skip", <<>>, NoRequest)

InspectChoice(c) ==
  IF c.message.some
  THEN Bind(Captures(c.message.content), LAMBDA cap :
         IF cap.ok
         THEN Bind(FromStr(cap.params), LAMBDA parsed :
                IF parsed.ok
                THEN IF cap.name \in DOMAIN FUNCTION_REGISTRY
                     THEN DispatchStep(cap, parsed.val)
                     ELSE NotFoundStep(cap)
                ELSE InvalidStep(cap))
         ELSE AnswerStep(c.message.content))
  ELSE IF c.text.some
       THEN TextStep(c.text.v)
       ELSE Step("skip", <<>>, NoRequest)

(***************************************************************************)
(* The lines read from standard input and the responses of the endpoint    *)
(* that the model explores.                                                *)
(***************************************************************************)
Marker(name, body) == <<FnPrefix>> \o name \o <<"{">> \o body \o <<"}", ">">>

Args(a, b, op) ==
  <<"\"a\"", ":">> \o a \o <<",", " ", "\"b\"", ":">> \o b
    \o <<",", " ", "\"operation\"", ":", op>>

TPlain == <<"hello">>
TCalc == Marker(<<"calculate">>, Args(<<"6">>, <<"3">>, "\"+\""))
TQuot == <<"hello", " ">> \o Marker(<<"calculate">>, Args(<<"1">>, <<"4">>, "\"/\""))
TDivZero == Marker(<<"calculate">>, Args(<<"5">>, <<"0">>, "\"/\""))
TUnknownOp == Marker(<<"calculate">>, Args(<<"1">>, <<"1">>, "\"%\""))
TMissing == Marker(<<"calculate">>, <<"\"a\"", ":", "6">>)
TWrongType == Marker(<<"calculate">>, Args(<<"\"x\"">>, <<"3">>, "\"+\""))
TBadJson == Marker(<<"calculate">>, <<"hello">>)
TNotFound == Marker(<<"lookup">>, Args(<<"6">>, <<"3">>, "\"+\""))
TNotFoundBadJson == Marker(<<"lookup">>, <<"hello">>)
TUnclosed == <<FnPrefix, "calculate", "{", "\"a\"", ":", "6", "}">>
TSub == Marker(<<"calculate">>, Args(<<"3">>, <<"6">>, "\"-\""))
TMul == Marker(<<"calculate">>, Args(<<"6">>, <<"3">>, "\"*\""))
\* two markers in one message
TTwo == TCalc \o <<" ">> \o TMul
\* a nested object, and one with ">" after its inner brace
TNested == Marker(<<"calculate">>, <<"\"a\"", ":", "{", "\"b\"", ":", "1", "}">>)
TNestedGt ==
  Marker(<<"calculate">>, <<"\"a\"", ":", "{", "\"b\"", ":", "1", "}", ">", " ">>)
\* the parameters written over several lines
TMultiline ==
  Marker(<<"calculate">>, <<"\n">> \o Args(<<"6">>, <<"3">>, "\"+\"") \o <<"\n">>)

Msg(t) == Choice(SomeMessage(t), NoText)
Txt(t) == Choice(NoMessage, SomeText(t))

Responses ==
  { <<>>,
    <<Msg(TPlain)>>,
    <<Msg(<<>>), Msg(TUnclosed)>>,
    <<Msg(TCalc)>>,
    <<Msg(TCalc), Msg(TPlain)>>,
    <<Msg(TQuot), Msg(TDivZero)>>,
    <<Msg(TUnknownOp)>>,
    <<Msg(TMissing), Txt(TPlain)>>,
    <<Msg(TWrongType)>>,
    <<Msg(TBadJson), Msg(TPlain)>>,
    <<Msg(TNotFound), Msg(TNotFound)>>,
    <<Msg(TNotFound), Msg(TCalc)>>,
    <<Msg(TNotFoundBadJson)>>,
    <<Txt(TPlain), Msg(TPlain)>>,
    <<Txt(TCalc)>>,
    <<Txt(TBadJson), Txt(TNotFound)>>,
    <<Choice(SomeMessage(TPlain), SomeText(TCalc))>>,
    <<Choice(NoMessage, NoText), Msg(TPlain)>>,
    <<Msg(TMultiline)>>,
    <<Msg(TSub), Msg(TMul)>>,
    <<Msg(TTwo)>>,
    <<Msg(TNestedGt), Msg(TNested)>>,
    <<Choice(NoMessage, NoText), Choice(SomeMessage(TCalc), SomeText(TPlain))>> }

UserInputs ==
  { <<"hello", "\n">>,
    <<" ", "EXIT", "\n">>,
    <<"exit", "\n">>,
    <<"exit", " ", "hello", "\n">> }

(***************************************************************************)
(* main: user_input.trim() and eq_ignore_ascii_case("exit")                *)
(***************************************************************************)
RECURSIVE TrimStart(_)
TrimStart(s) == IF s # <<>> /\ Head(s) \in Ws THEN TrimStart(Tail(s)) ELSE s

RECURSIVE TrimEnd(_)
TrimEnd(s) ==
  IF s # <<>> /\ s[Len(s)] \in Ws THEN TrimEnd(SubSeq(s, 1, Len(s) - 1)) ELSE s

Trim(s) == TrimEnd(TrimStart(s))

ToAsciiLower(l) == IF l \in {"exit", "EXIT", "Exit"} THEN "exit" ELSE l

IsExit(input) == Len(input) = 1 /\ ToAsciiLower(input[1]) = "exit"

(***************************************************************************)
(* State.                                                                  *)
(*   pc        where main is: "prompt" (top of the loop), "await" (a       *)
(*             request is sent and its response awaited), "inspect" (in    *)
(*             the for loop of handle_chat_response), "exited" (main       *)
(*             returned Ok after exit), "failed" (main returned Err)       *)
(*   stack     the active calls of handle_chat_response, outermost first:  *)
(*             the choices of the response and the index of the choice     *)
(*             the for loop is at                                          *)
(*   inflight  the requests sent whose response has not arrived            *)
(*   log       what the current turn has done so far: lines printed,       *)
(*             requests sent, responses received, each tagged with the     *)
(*             position (choice index at every level) that caused it       *)
(***************************************************************************)
VARIABLES pc, stack, inflight, log

vars == <<pc, stack, inflight, log>>

Frame(choices) == [choices |-> choices, i |-> 1]

Top == stack[Len(stack)]

\* the choice index at every level of the recursion
Path(stk) == [k \in 1..Len(stk) |-> stk[k].i]

LogEv(kind, text, path, req) ==
  [kind |-> kind, text |-> text, path |-> path, req |-> req]

Tagged(events, path) ==
  [k \in 1..Len(events) |-> LogEv(events[k].kind, events[k].text, path, NoRequest)]

\* the for loop moves on to the next choice
NextChoice(i) == i + 1

\* variant: the caller starts its loop over after the recursive call
ResumeAfter_restart(frame) == [frame EXCEPT !.i = 1]

\* a caller whose recursive call returned Ok goes on with its next choice
ResumeAfter(frame) == [frame EXCEPT !.i = NextChoice(frame.i)]

\* variant: the request is sent without awaiting it, the loop goes on
AfterDispatch_detached(stk) ==
  [pc |-> "inspect", stack |-> [stk EXCEPT ![Len(stk)].i = NextChoice(stk[Len(stk)].i)]]

\* variant: below the second level the follow-up is not awaited
AfterDispatch_capped(stk) ==
  IF Len(stk) >= 2
  THEN [pc |-> "inspect",
        stack |-> [stk EXCEPT ![Len(stk)].i = NextChoice(stk[Len(stk)].i)]]
  ELSE [pc |-> "await", stack |-> stk]

\* .send().await and .json().await suspend the call until the response is
\* there: the loop stays at the choice it dispatched
AfterDispatch(stk) == [pc |-> "await", stack |-> stk]

\* variant: main leaves its loop after the first turn
PcAfterTurn_once == "exited"

\* handle_chat_response returned Ok to main: next iteration of the loop
PcAfterTurn == "prompt"

\* an Err reaches the ? of main, which returns it
PcAfterError == "failed"

\* variant: a failed follow-up is caught where it was sent and the loop
\* goes on with the next choice
Propagate_caught(stk) ==
  IF stk = <<>> THEN [pc |-> PcAfterError, stack |-> <<>>]
  ELSE [pc |-> "inspect",
        stack |-> [stk EXCEPT ![Len(stk)].i = NextChoice(stk[Len(stk)].i)]]

\* the ? after send(), json() and the recursive call hands the Err to the
\* caller at every level: no call of handle_chat_response stays active
Propagate(stk) == [pc |-> PcAfterError, stack |-> <<>>]

(***************************************************************************)
(* The endpoint answers with any response of Responses, as long as the     *)
(* turn stays within MaxFollowUps follow-up requests.                      *)
(***************************************************************************)
Dispatches(c) == InspectChoice(c).outcome = "dispatch"

NumDispatch(choices, from) ==
  Cardinality({j \in from..Len(choices) : Dispatches(choices[j])})

RECURSIVE Pending(_)
Pending(stk) ==
  IF stk = <<>> THEN 0
  ELSE NumDispatch(Head(stk).choices, Head(stk).i + 1) + Pending(Tail(stk))

IsFollowUpSend(e) == e.kind = "send" /\ e.path # <<>>

FollowUps == Len(SelectSeq(log, IsFollowUpSend))

WithinBudget(r) ==
  NumDispatch(r, 1) = 0
    \/ FollowUps + Pending(stack) + NumDispatch(r, 1) <= MaxFollowUps

(***************************************************************************)
(* Actions.                                                                *)
(***************************************************************************)
Init ==
  /\ pc = "prompt"
  /\ stack = <<>>
  /\ inflight = <<>>
  /\ log = <<>>

\* variant: the messages vector outlives the turn, so the user message of
\* the turn before is sent along
ReadInput_history(line) ==
  /\ pc = "prompt"
  /\ LET input == Trim(line)
         request ==
           ChatRequest(<<Message("system", SystemPrompt)>>
                         \o (IF log = <<>> THEN <<>> ELSE <<log[1].req.messages[2]>>)
                         \o <<Message("user", input)>>, Tools)
     IN IF IsExit(input)
        THEN /\ pc' = "exited"
             /\ log' = <<LogEv("exiting", <<>>, <<>>, NoRequest)>>
             /\ UNCHANGED <<stack, inflight>>
        ELSE /\ pc' = "await"
             /\ inflight' = Append(inflight, request)
             /\ log' = <<LogEv("send", <<>>, <<>>, request)>>
             /\ UNCHANGED stack

\* main, lines 194-227: read a line, exit or send the initial request
ReadInput(line) ==
  /\ pc = "prompt"
  /\ LET input == Trim(line)
     IN IF IsExit(input)
        THEN /\ pc' = "exited"
             /\ log' = <<LogEv("exiting", <<>>, <<>>, NoRequest)>>
             /\ UNCHANGED <<stack, inflight>>
        ELSE /\ pc' = "await"
             /\ inflight' = Append(inflight, InitialRequest(input))
             /\ log' = <<LogEv("send", <<>>, <<>>, InitialRequest(input))>>
             /\ UNCHANGED stack

\* main, lines 195 and 197: flush or read_line fails
ReadFail ==
  /\ pc = "prompt"
  /\ pc' = PcAfterError
  /\ log' = <<LogEv("io_error", <<>>, <<>>, NoRequest)>>
  /\ UNCHANGED <<stack, inflight>>

\* the awaited response arrives and decodes: handle_chat_response is entered
RecvResponse(r) ==
  /\ pc = "await"
  /\ inflight # <<>>
  /\ WithinBudget(r)
  /\ pc' = "inspect"
  /\ inflight' = Tail(inflight)
  /\ stack' = Append(stack, Frame(r))
  /\ log' = Append(log, LogEv("recv", <<>>, Path(stack), NoRequest))

\* send() fails or the body does not decode: the Err goes up through every
\* active call of handle_chat_response and out of main
TransportFailure(why) ==
  /\ pc = "await"
  /\ inflight # <<>>
  /\ pc' = Propagate(stack).pc
  /\ inflight' = Tail(inflight)
  /\ stack' = Propagate(stack).stack
  /\ log' = Append(log, LogEv("transport_error", <<why>>, Path(stack), NoRequest))

\* one iteration of the for loop
Inspect ==
  /\ pc = "inspect"
  /\ stack # <<>>
  /\ Top.i <= Len(Top.choices)
  /\ LET st == InspectChoice(Top.choices[Top.i])
         path == Path(stack)
     IN IF st.outcome = "dispatch"
        THEN /\ log' = log \o Tagged(st.events, path)
                           \o <<LogEv("send", <<>>, path, st.request)>>
             /\ inflight' = Append(inflight, st.request)
             /\ pc' = AfterDispatch(stack).pc
             /\ stack' = AfterDispatch(stack).stack
        ELSE /\ log' = log \o Tagged(st.events, path)
             /\ stack' = [stack EXCEPT ![Len(stack)].i = NextChoice(Top.i)]
             /\ UNCHANGED <<pc, inflight>>

\* the for loop is over: Ok(()) goes back to the caller
Return ==
  /\ pc = "inspect"
  /\ stack # <<>>
  /\ Top.i > Len(Top.choices)
  /\ IF Len(stack) = 1
     THEN /\ stack' = <<>>
          /\ pc' = PcAfterTurn
     ELSE /\ stack' = [SubSeq(stack, 1, Len(stack) - 1)
                         EXCEPT ![Len(stack) - 1] = ResumeAfter(stack[Len(stack) - 1])]
          /\ pc' = "inspect"
  /\ UNCHANGED <<inflight, log>>

Next ==
  \/ \E line \in UserInputs : ReadInput(line)
  \/ ReadFail
  \/ \E r \in Responses : RecvResponse(r)
  \/ \E why \in {"send", "decode"} : TransportFailure(why)
  \/ Inspect
  \/ Return

Spec == Init /\ [][Next]_vars

\* every request is answered, and the program keeps running its own code
FairSpec ==
  /\ Spec
  /\ WF_vars(Inspect)
  /\ WF_vars(Return)
  /\ WF_vars((\E r \in Responses : RecvResponse(r))
               \/ (\E why \in {"send", "decode"} : TransportFailure(why)))

TypeOK ==
  /\ pc \in {"prompt", "await", "inspect", "exited", "failed"}
  /\ \A k \in 1..Len(stack) : stack[k].choices \in Responses
  /\ \A k \in 1..Len(stack) : stack[k].i \in 1..(Len(stack[k].choices) + 1)

(***************************************************************************)
(* Vocabulary of the properties.  A choice is addressed by the frame k     *)
(* that holds its response and its index j there; its position in the      *)
(* turn is the path of choice indices leading to it.                       *)
(***************************************************************************)
\* the loop has finished choice j of frame k
Completed(k, j) == j < stack[k].i

\* the loop has inspected choice j of frame k (and, if it dispatched it,
\* has sent the follow-up request)
Started(k, j) ==
  \/ Completed(k, j)
  \/ /\ j = stack[k].i
     /\ j <= Len(stack[k].choices)
     /\ (k < Len(stack) \/ pc = "await")

Addr(k, j) == Path(SubSeq(stack, 1, k - 1)) \o <<j>>

EventsAt(path) == LET At(e) == e.path = path IN SelectSeq(log, At)

OfKind(evs, kind) == LET Is(e) == e.kind = kind IN SelectSeq(evs, Is)

Untag(evs) == [n \in 1..Len(evs) |-> Ev(evs[n].kind, evs[n].text)]

Choices ==
  UNION {{<<k, j>> : j \in 1..Len(stack[k].choices)} : k \in 1..Len(stack)}

\* the message content carries a marker with JSON parameters and a
\* registered name
ValidMarker(text) ==
  /\ Captures(text).ok
  /\ FromStr(Captures(text).params).ok
  /\ Captures(text).name \in DOMAIN FUNCTION_REGISTRY

\* C1: a choice whose message content carries a marker with parseable JSON
\* parameters and a registered name has, once inspected, caused exactly one
\* handler invocation followed by exactly one follow-up request; that request
\* holds one message, role "user", whose content is the text the handler
\* returned, and no tools; at most one response is taken for it.  The
\* statement ranges over the frames of every level, so the choices of a
\* follow-up response are held to it as well.
C1_Continuation ==
  \A a \in Choices :
    LET c == stack[a[1]].choices[a[2]]
        ev == EventsAt(Addr(a[1], a[2]))
        sends == OfKind(ev, "send")
        returned == handle_calculate(FromStr(Captures(c.message.content).params).val).text
    IN (Started(a[1], a[2]) /\ c.message.some /\ ValidMarker(c.message.content)) =>
         /\ Len(OfKind(ev, "fn_called")) = 1
         /\ Len(sends) = 1
         /\ \E p, q \in 1..Len(ev) :
              p < q /\ ev[p].kind = "fn_called" /\ ev[q].kind = "send"
         /\ sends[1].req.messages = <<[role |-> "user", content |-> returned]>>
         /\ sends[1].req.tools = <<>>
         /\ Len(OfKind(ev, "recv")) <= 1

\* a follow-up response carried a valid marker itself and was dispatched again
C1_Witness ==
  /\ Len(stack) = 2
  /\ pc = "await"
  /\ Top.choices[Top.i].message.some
  /\ ValidMarker(Top.choices[Top.i].message.content)
  /\ Len(OfKind(EventsAt(Path(stack)), "send")) = 1

\* the text the loop reads for a choice that has a message or a raw text
InspectedText(c) == IF c.message.some THEN c.message.content ELSE c.text.v

\* C2: a finished choice whose inspected text has no marker has caused one
\* output, that text unchanged, and nothing else: no handler invocation and
\* no request.
C2_PlainAnswer ==
  \A a \in Choices :
    LET c == stack[a[1]].choices[a[2]]
    IN (Completed(a[1], a[2]) /\ (c.message.some \/ c.text.some)
          /\ ~Captures(InspectedText(c)).ok) =>
         Untag(EventsAt(Addr(a[1], a[2]))) = <<Ev("chatbot", InspectedText(c))>>

\* a marker-free message and a marker-free raw text have both been answered
C2_Witness ==
  /\ Len(stack) = 1
  /\ Top.i = 3
  /\ ~Top.choices[1].message.some /\ Top.choices[1].text.some
  /\ Top.choices[2].message.some
  /\ ~Captures(Top.choices[1].text.v).ok
  /\ ~Captures(Top.choices[2].message.content).ok
  /\ Len(OfKind(log, "chatbot")) = 2

\* the message content carries a marker naming a function that is not
\* registered
UnregisteredMarker(c) ==
  /\ c.message.some
  /\ Captures(c.message.content).ok
  /\ Captures(c.message.content).name \notin DOMAIN FUNCTION_REGISTRY

\* C3 as stated: every marker naming an unregistered function, whatever its
\* parameter span, gets the "not found" diagnostic, no handler invocation
\* and no follow-up request.
C3_Claim ==
  \A a \in Choices :
    LET ev == EventsAt(Addr(a[1], a[2]))
    IN (Completed(a[1], a[2]) /\ UnregisteredMarker(stack[a[1]].choices[a[2]])) =>
         /\ Len(OfKind(ev, "not_found")) = 1
         /\ Len(OfKind(ev, "fn_called")) = 0
         /\ Len(OfKind(ev, "send")) = 0

\* C3 amended: the step that inspects a marker naming an unregistered
\* function whose parameter span parses as JSON prints the requested name,
\* the span and the "not found" diagnostic for that name, and does nothing
\* else: no handler output, no request, and no change of state other than
\* the loop moving to the next choice.  The diagnostic depends on the marker
\* only, so inspecting the same input again prints the same lines.
C3_Amended ==
  [][(/\ pc = "inspect"
      /\ stack # <<>>
      /\ Top.i <= Len(Top.choices)
      /\ UnregisteredMarker(Top.choices[Top.i])
      /\ FromStr(Captures(Top.choices[Top.i].message.content).params).ok)
     => LET cap == Captures(Top.choices[Top.i].message.content)
            lines == <<Ev("requested", cap.name), Ev("with_params", cap.params),
                       Ev("not_found", cap.name)>>
        IN /\ log' = log \o Tagged(lines, Path(stack))
           /\ inflight' = inflight
           /\ pc' = pc
           /\ stack' = [stack EXCEPT ![Len(stack)].i = Top.i + 1]]_vars

\* the same unregistered marker was inspected twice in a row, with the same
\* diagnostic both times
C3_Witness ==
  /\ Len(stack) = 1
  /\ Top.i = 3
  /\ Top.choices[1] = Top.choices[2]
  /\ UnregisteredMarker(Top.choices[1])
  /\ Untag(EventsAt(<<1>>)) = Untag(EventsAt(<<2>>))
  /\ Len(OfKind(log, "not_found")) = 2

\* C4: a finished choice whose message content carries a marker with a
\* parameter span that is not JSON has caused the requested name, the span
\* and the malformed-parameter diagnostic to be printed, and nothing else:
\* no handler invocation and no request.
C4_MalformedParams ==
  \A a \in Choices :
    LET c == stack[a[1]].choices[a[2]]
        cap == Captures(c.message.content)
    IN (Completed(a[1], a[2]) /\ c.message.some /\ cap.ok /\ ~FromStr(cap.params).ok) =>
         Untag(EventsAt(Addr(a[1], a[2])))
           = <<Ev("requested", cap.name), Ev("with_params", cap.params),
               Ev("invalid_params", cap.params)>>

\* a marker with a registered name and a non-JSON span was passed over, and
\* the loop went on to the next choice
C4_Witness ==
  /\ Len(stack) = 1
  /\ Top.i = 3
  /\ Top.choices[1].message.some
  /\ Captures(Top.choices[1].message.content).ok
  /\ Captures(Top.choices[1].message.content).name \in DOMAIN FUNCTION_REGISTRY
  /\ ~FromStr(Captures(Top.choices[1].message.content).params).ok
  /\ Len(OfKind(EventsAt(<<1>>), "invalid_params")) = 1

\* C5 as stated: after a transport failure the process is still running, at
\* the prompt for the next input.
C5_Claim ==
  (log # <<>> /\ log[Len(log)].kind = "transport_error") => pc = "prompt"

RECURSIVE PathBefore(_, _)
\* p comes before q in depth-first order of the choices: at the first level
\* where they differ, p has the smaller choice index
PathBefore(p, q) ==
  IF p = <<>> \/ q = <<>> THEN FALSE
  ELSE IF Head(p) # Head(q) THEN Head(p) < Head(q)
  ELSE PathBefore(Tail(p), Tail(q))

\* C6: whatever choice i of a response causes, at any depth of the follow-up
\* chain it starts, is in the log before whatever a later choice of the same
\* response causes.
C6_ChoiceOrder ==
  \A m, n \in 1..Len(log) : PathBefore(log[m].path, log[n].path) => m < n

\* choice 1 started a follow-up chain that went two levels deep, and choice 2
\* of the same response then invoked the handler and sent its own request
C6_Witness ==
  \E m, n \in 1..Len(log) :
    /\ Len(log[m].path) = 2
    /\ log[m].path[1] = 1
    /\ log[n].path = <<2>>
    /\ log[n].kind = "send"

\* C7: at most one request is in flight, and between two requests of a turn
\* the response to the first has been received.
C7_OneInFlight ==
  /\ Len(inflight) <= 1
  /\ \A m, n \in 1..Len(log) :
       (m < n /\ log[m].kind = "send" /\ log[n].kind = "send") =>
         \E r \in (m + 1)..(n - 1) : log[r].kind = "recv"

\* a follow-up request is in flight after the responses to two earlier
\* requests of the turn were received
C7_Witness ==
  /\ Len(inflight) = 1
  /\ Len(OfKind(log, "send")) = 3
  /\ Len(OfKind(log, "recv")) = 2

\* C8 as stated: a choice without message whose raw text carries a valid
\* marker for a registered function is dispatched: handler invoked,
\* follow-up sent.
C8_Claim ==
  \A a \in Choices :
    LET c == stack[a[1]].choices[a[2]]
        ev == EventsAt(Addr(a[1], a[2]))
    IN (Completed(a[1], a[2]) /\ ~c.message.some /\ c.text.some /\ ValidMarker(c.text.v)) =>
         /\ Len(OfKind(ev, "fn_called")) = 1
         /\ Len(OfKind(ev, "send")) = 1

InTurn == pc \in {"await", "inspect"}

\* C9: when every request is answered and the responses stop carrying
\* markers, a turn that has started comes to its end: control is back at
\* the prompt (or the turn was cut short by a transport failure).
C9_TurnEnds == InTurn ~> (pc = "prompt" \/ pc = "failed")

\* a turn with a follow-up chain two levels deep has ended at the prompt
C9_Witness ==
  /\ pc = "prompt"
  /\ \E m \in 1..Len(log) : Len(log[m].path) = 2

\* the parameters are not what the calculator needs
InvalidInput(params) ==
  \/ Get(params, "a").t # "num"
  \/ Get(params, "b").t # "num"
  \/ Get(params, "operation").t # "str"
  \/ Get(params, "operation").s \notin {"+", "-", "*", "/"}
  \/ (Get(params, "operation").s = "/" /\ Get(params, "b").n = 0)

\* C10 as stated: whenever the handler is given invalid input, the text it
\* returns (the content of the follow-up message) begins with "Error:".
C10_Claim ==
  \A a \in Choices :
    LET c == stack[a[1]].choices[a[2]]
        sends == OfKind(EventsAt(Addr(a[1], a[2])), "send")
    IN (/\ Started(a[1], a[2]) /\ c.message.some /\ ValidMarker(c.message.content)
        /\ InvalidInput(FromStr(Captures(c.message.content).params).val)
        /\ Len(sends) = 1) =>
         Head(sends[1].req.messages[1].content) = "Error:"

\* the lines that report an error: the three error lines of the program and
\* the report of the Err that main returns
ErrorKinds ==
  {"fn_error", "invalid_params", "not_found", "transport_error", "io_error"}

\* C11 as stated: every error outcome leaves at least one diagnostic line
\* before the turn ends: a choice whose marker has malformed parameters, names
\* an unknown function or gives the handler input it rejects (missing or
\* wrong-typed field, division by zero, unknown operation) has an error line
\* among the lines of that choice, and a failed turn has one in its log.
C11_Claim ==
  /\ \A a \in Choices :
       LET c == stack[a[1]].choices[a[2]]
           ev == EventsAt(Addr(a[1], a[2]))
       IN (/\ Started(a[1], a[2]) /\ c.message.some
           /\ Captures(c.message.content).ok
           /\ \/ ~ValidMarker(c.message.content)
              \/ InvalidInput(FromStr(Captures(c.message.content).params).val)) =>
            \E m \in 1..Len(ev) : ev[m].kind \in ErrorKinds
  /\ pc = "failed" => \E m \in 1..Len(log) : log[m].kind \in ErrorKinds

\* s holds, from position i on, a marker for a registered name (up to k)
\* with a parameter span (k to m) that is JSON
MarkerAt(s, i, k, m) ==
  /\ s[i] = FnPrefix
  /\ k > i + 1
  /\ \A x \in (i + 1)..(k - 1) : s[x] \in WordLex
  /\ s[k] = "{"
  /\ m > k /\ m < Len(s)
  /\ s[m] = "}" /\ s[m + 1] = ">"
  /\ SubSeq(s, i + 1, k - 1) \in DOMAIN FUNCTION_REGISTRY
  /\ FromStr(SubSeq(s, k, m)).ok

HasMarkerBefore(s, i) ==
  \E i2 \in 1..(i - 1) : \E k2, m2 \in 1..Len(s) : MarkerAt(s, i2, k2, m2)

\* C12 as stated: whenever the content of an inspected message contains a
\* marker with a registered name NAME and a parameter span P that is JSON,
\* the parser extracts exactly NAME and exactly P (the lines printed for the
\* choice show them), and the marker rebuilt from the extracted name and
\* span parses to the same name and span.
C12_Claim ==
  \A a \in Choices :
    LET c == stack[a[1]].choices[a[2]]
        s == c.message.content
        ev == EventsAt(Addr(a[1], a[2]))
    IN (Started(a[1], a[2]) /\ c.message.some) =>
         \A i, k, m \in 1..Len(s) :
           (MarkerAt(s, i, k, m) /\ ~HasMarkerBefore(s, i)) =>
             LET name == SubSeq(s, i + 1, k - 1)
                 span == SubSeq(s, k, m)
                 again == Captures(<<FnPrefix>> \o Captures(s).name
                                     \o Captures(s).params \o <<">">>)
             IN /\ Captures(s).ok
                /\ Captures(s).name = name
                /\ Captures(s).params = span
                /\ Untag(OfKind(ev, "requested")) = <<Ev("requested", name)>>
                /\ Untag(OfKind(ev, "with_params")) = <<Ev("with_params", span)>>
                /\ again.ok /\ again.name = name /\ again.params = span

RECURSIVE Pow10(_)
Pow10(k) == IF k = 0 THEN 1 ELSE 10 * Pow10(k - 1)

\* the number a decimal numeral writes, as <<numerator, denominator>>
Decode(lexs) ==
  LET neg == lexs # <<>> /\ lexs[1] = "-"
      body == IF neg THEN Tail(lexs) ELSE lexs
      dots == {p \in 1..Len(body) : body[p] = "."}
      dot == IF dots = {} THEN Len(body) + 1 ELSE CHOOSE p \in dots : TRUE
      whole == SubSeq(body, 1, dot - 1)
      frac == SubSeq(body, dot + 1, Len(body))
      n == DigitsVal(whole) * Pow10(Len(frac)) + DigitsVal(frac)
  IN <<IF neg THEN 0 - n ELSE n, Pow10(Len(frac))>>

\* what follows " is " in a result text; <<>> when the text has no " is "
Computed(text) ==
  LET ps == {p \in 1..Len(text) : text[p] = " is "}
  IN IF ps = {} THEN <<>> ELSE SubSeq(text, (CHOOSE p \in ps : TRUE) + 1, Len(text))

\* C13: for numeric a and b the text the handler returns (the content of the
\* follow-up message) ends in the numeral of a+b, a-b, a*b for "+", "-",
\* "*", and in the numeral of a/b (cut after FracDigits decimals) for "/"
\* with b # 0; for "/" with b = 0 it is the division-by-zero text and holds
\* no computed value; for any other operation it is the unknown-operation
\* text.
C13_Calculator ==
  \A a \in Choices :
    LET c == stack[a[1]].choices[a[2]]
        sends == OfKind(EventsAt(Addr(a[1], a[2])), "send")
    IN (/\ Started(a[1], a[2]) /\ c.message.some /\ ValidMarker(c.message.content)
        /\ Get(FromStr(Captures(c.message.content).params).val, "a").t = "num"
        /\ Get(FromStr(Captures(c.message.content).params).val, "b").t = "num"
        /\ Get(FromStr(Captures(c.message.content).params).val, "operation").t = "str") =>
         LET params == FromStr(Captures(c.message.content).params).val
             x == Get(params, "a").n
             y == Get(params, "b").n
             op == Get(params, "operation").s
             text == sends[1].req.messages[1].content
             v == Decode(Computed(text))
         IN /\ Len(sends) = 1
            /\ op = "+" => (Computed(text) # <<>> /\ v[1] = (x + y) * v[2])
            /\ op = "-" => (Computed(text) # <<>> /\ v[1] = (x - y) * v[2])
            /\ op = "*" => (Computed(text) # <<>> /\ v[1] = (x * y) * v[2])
            /\ (op = "/" /\ y # 0) =>
                 /\ Computed(text) # <<>>
                 /\ v[1] * y <= x * v[2]
                 /\ (x * v[2] - v[1] * y) * Pow10(FracDigits) < y * v[2]
            /\ (op = "/" /\ y = 0) =>
                 /\ text = <<"Error:", " Division by zero">>
                 /\ \A p \in 1..Len(text) : text[p] \notin Digits
            /\ op \notin {"+", "-", "*", "/"} =>
                 text = <<"Error:", " Unknown operation '", op, "'">>

\* one turn has computed 3 - 6 = -3 and then 6 * 3 = 18
C13_Witness ==
  /\ \E m \in 1..Len(log) :
       /\ log[m].kind = "send" /\ log[m].path = <<1>>
       /\ Computed(log[m].req.messages[1].content) = <<"-", "3">>
  /\ \E m \in 1..Len(log) :
       /\ log[m].kind = "send" /\ log[m].path = <<2>>
       /\ Computed(log[m].req.messages[1].content) = <<"1", "8">>

\* the positions of s at which a marker starts
MarkerStarts(s) == {i \in 1..Len(s) : MatchAt(s, i).ok}

\* C14: one inspection of a message acts on at most one marker: it prints
\* at most one request, calls at most one handler and sends at most one
\* follow-up; when the content holds markers, the name and the span printed
\* are those of the leftmost one, and the count stays at one however many
\* markers follow it.
C14_FirstMarkerOnly ==
  \A a \in Choices :
    LET c == stack[a[1]].choices[a[2]]
        s == c.message.content
        ev == EventsAt(Addr(a[1], a[2]))
    IN (Started(a[1], a[2]) /\ c.message.some) =>
         /\ Len(OfKind(ev, "requested")) <= 1
         /\ Len(OfKind(ev, "fn_called")) <= 1
         /\ Len(OfKind(ev, "send")) <= 1
         /\ MarkerStarts(s) # {} =>
              LET first == MatchAt(s, CHOOSE i \in MarkerStarts(s) :
                                        \A j \in MarkerStarts(s) : i <= j)
              IN /\ Untag(OfKind(ev, "requested")) = <<Ev("requested", first.name)>>
                 /\ Untag(OfKind(ev, "with_params")) = <<Ev("with_params", first.params)>>

\* a message with the markers for 6 + 3 and for 6 * 3 has been inspected:
\* the follow-up carries the sum and the loop waits for its response
C14_Witness ==
  /\ pc = "await"
  /\ Len(stack) = 1
  /\ Top.choices = <<Msg(TTwo)>>
  /\ Cardinality(MarkerStarts(TTwo)) = 2
  /\ \E m \in 1..Len(log) :
       /\ log[m].kind = "send" /\ log[m].path = <<1>>
       /\ Computed(log[m].req.messages[1].content) = <<"9">>

\* C15 as stated: the parameter span the parser extracts ends at the first
\* "}" after its opening "{": the span printed for a choice holds no "}"
\* before its last lexeme (so a nested object would be cut at its inner "}").
C15_Claim ==
  \A a \in Choices :
    LET c == stack[a[1]].choices[a[2]]
        spans == OfKind(EventsAt(Addr(a[1], a[2])), "with_params")
    IN (Started(a[1], a[2]) /\ c.message.some) =>
         \A n \in 1..Len(spans) :
           \A x \in 1..(Len(spans[n].text) - 1) : spans[n].text[x] # "}"

\* the ends the span starting at k can have: a "}" directly followed by
\* ">", with no newline between k and it
SpanEnds(s, k) ==
  {m \in (k + 1)..(Len(s) - 1) :
     /\ s[m] = "}" /\ s[m + 1] = ">"
     /\ \A x \in (k + 1)..(m - 1) : s[x] # "\n"}

\* C15, amended: the span runs from the "{" after NAME to the first "}"
\* that is directly followed by ">".  For a message whose first
\* "<function=" is followed by a name, "{" and such an end, the span
\* printed is exactly that stretch; a nested object whose inner "}" is not
\* followed by ">" is therefore extracted whole.
C15_Amended ==
  \A a \in Choices :
    LET c == stack[a[1]].choices[a[2]]
        s == c.message.content
        ev == EventsAt(Addr(a[1], a[2]))
        starts == {i \in 1..Len(s) : s[i] = FnPrefix}
    IN (Started(a[1], a[2]) /\ c.message.some /\ starts # {}) =>
         LET i == CHOOSE p \in starts : \A q \in starts : p <= q
             k == WordEnd(s, i + 1)
         IN (k > i + 1 /\ k <= Len(s) /\ s[k] = "{" /\ SpanEnds(s, k) # {}) =>
              LET m == CHOOSE p \in SpanEnds(s, k) : \A q \in SpanEnds(s, k) : p <= q
              IN Untag(OfKind(ev, "with_params")) =
                   <<Ev("with_params", SubSeq(s, k, m))>>

\* the marker with the nested object {"a":{"b":1}} has been inspected: the
\* whole span was printed and parsed, and the handler was called with it
C15_Witness ==
  \E a \in Choices :
    LET c == stack[a[1]].choices[a[2]]
        ev == EventsAt(Addr(a[1], a[2]))
    IN /\ Started(a[1], a[2])
       /\ c = Msg(TNested)
       /\ Untag(OfKind(ev, "with_params")) =
            <<Ev("with_params",
                 <<"{", "\"a\"", ":", "{", "\"b\"", ":", "1", "}", "}">>)>>
       /\ Len(OfKind(ev, "fn_called")) = 1

\* the text the calculator returns for input it rejects
RejectionText(params) ==
  IF \/ Get(params, "a").t # "num"
     \/ Get(params, "b").t # "num"
     \/ Get(params, "operation").t # "str"
  THEN <<"Invalid parameters for calculation">>
  ELSE IF Get(params, "operation").s = "/"
  THEN <<"Error:", " Division by zero">>
  ELSE <<"Error:", " Unknown operation '", Get(params, "operation").s, "'">>

\* C16: a handler that rejects its input (invalid parameters, division by
\* zero, unknown operation) does not end the choice: the handler is called
\* once, exactly one follow-up request is sent whose only message has role
\* "user" and the rejection text as content, and the loop awaits its
\* response like that of any other follow-up.
C16_ErrorsContinue ==
  \A a \in Choices :
    LET c == stack[a[1]].choices[a[2]]
        ev == EventsAt(Addr(a[1], a[2]))
        sends == OfKind(ev, "send")
    IN (/\ Started(a[1], a[2]) /\ c.message.some /\ ValidMarker(c.message.content)
        /\ InvalidInput(FromStr(Captures(c.message.content).params).val)) =>
         /\ Len(OfKind(ev, "fn_called")) = 1
         /\ Len(sends) = 1
         /\ sends[1].req.messages =
              <<[role |-> "user",
                 content |-> RejectionText(FromStr(Captures(c.message.content).params).val)]>>
         /\ Len(OfKind(ev, "recv")) <= 1
         /\ (~Completed(a[1], a[2]) /\ Len(OfKind(ev, "recv")) = 0) =>
              (pc = "await" /\ inflight = <<sends[1].req>>)

\* the response to a follow-up that carried a rejection text is being
\* inspected, one level further down
C16_Witness ==
  /\ pc = "inspect"
  /\ \E k \in 1..(Len(stack) - 1) :
       LET c == stack[k].choices[stack[k].i]
       IN /\ c.message.some /\ ValidMarker(c.message.content)
          /\ InvalidInput(FromStr(Captures(c.message.content).params).val)
          /\ Len(OfKind(EventsAt(Addr(k, stack[k].i)), "recv")) = 1

\* the response received at position path led to no follow-up request
Leaf(path) ==
  \A m \in 1..Len(log) :
    (log[m].kind = "send" /\ Len(log[m].path) = Len(path) + 1) =>
      SubSeq(log[m].path, 1, Len(path)) # path

\* C17: nothing in the loop counts continuations.  At whatever depth of the
\* follow-up chain the loop comes to a message with a valid marker, it calls
\* the handler, sends a further follow-up and waits for its response, one
\* level staying as deep as it was; and a turn that has come to its end
\* received at least one response that led to no follow-up, so it is the
\* responses and never the loop that end the chain.
C17_NoDepthLimit ==
  /\ [][(/\ pc = "inspect" /\ stack # <<>> /\ Top.i <= Len(Top.choices)
         /\ Top.choices[Top.i].message.some
         /\ ValidMarker(Top.choices[Top.i].message.content)) =>
          /\ pc' = "await"
          /\ stack' = stack
          /\ Len(inflight') = 1
          /\ inflight'[1].messages[1].role = "user"
          /\ Len(log') > Len(log)
          /\ log'[Len(log')].kind = "send"
          /\ log'[Len(log')].path = Path(stack)]_vars
  /\ [](pc = "prompt" /\ log # <<>> =>
          \E m \in 1..Len(log) : log[m].kind = "recv" /\ Leaf(log[m].path))

\* a chain of MaxFollowUps follow-ups, each sent from one level further down
C17_Witness ==
  /\ pc = "await"
  /\ Len(stack) = MaxFollowUps
  /\ \E m \in 1..Len(log) :
       log[m].kind = "send" /\ Len(log[m].path) = MaxFollowUps

\* C18: a failed request ends everything that was under way.  The failure
\* is the last thing the turn does: no line is printed, no handler called
\* and no request sent after it, at the level of the failed follow-up or at
\* any enclosing level, and no call of handle_chat_response stays active,
\* so the choices that come after the failed one are never inspected.
C18_FailurePropagates ==
  /\ \A m \in 1..(Len(log) - 1) : log[m].kind # "transport_error"
  /\ (log # <<>> /\ log[Len(log)].kind = "transport_error") =>
       /\ stack = <<>>
       /\ inflight = <<>>
       /\ ~InTurn
       /\ \A m \in 1..(Len(log) - 1) :
            ~PathBefore(log[Len(log)].path, log[m].path)

\* the follow-up for 1 / 4, sent for the first choice of a response whose
\* second choice is the division by zero, has failed: the second choice has
\* left no trace
C18_Witness ==
  /\ pc = "failed"
  /\ log[Len(log)].kind = "transport_error"
  /\ log[Len(log)].path = <<1>>
  /\ \E m \in 1..Len(log) :
       /\ log[m].kind = "send" /\ log[m].path = <<1>>
       /\ Computed(log[m].req.messages[1].content) = <<"0", ".", "2", "5">>
  /\ EventsAt(<<2>>) = <<>>

\* C19: the message comes first.  A choice that has both a message and a
\* raw text is handled by its message content alone: the raw text is never
\* printed and never searched for a marker (a marker in it causes no request
\* line, no handler call and no follow-up), while the content is printed as
\* the answer or its marker acted on.  A choice that has neither leaves no
\* trace at all and the loop goes on to the next choice.
C19_MessageFirst ==
  \A a \in Choices :
    LET c == stack[a[1]].choices[a[2]]
        s == c.message.content
        ev == EventsAt(Addr(a[1], a[2]))
    IN /\ (Started(a[1], a[2]) /\ c.message.some /\ c.text.some) =>
            /\ \A m \in 1..Len(ev) : ev[m].text = c.text.v => c.text.v = s
            /\ ~Captures(s).ok => Untag(ev) = <<Ev("chatbot", s)>>
            /\ Captures(s).ok =>
                 /\ Untag(OfKind(ev, "with_params")) =
                      <<Ev("with_params", Captures(s).params)>>
                 /\ OfKind(ev, "chatbot") = <<>>
            /\ ValidMarker(s) =>
                 (Len(OfKind(ev, "fn_called")) = 1 /\ Len(OfKind(ev, "send")) = 1)
            /\ ~ValidMarker(s) =>
                 (OfKind(ev, "fn_called") = <<>> /\ OfKind(ev, "send") = <<>>)
       /\ (~c.message.some /\ ~c.text.some /\ a[2] <= stack[a[1]].i) =>
            /\ ev = <<>>
            /\ (a[1] < Len(stack) \/ pc = "await") => Completed(a[1], a[2])

\* in one response, a choice with neither field has been passed over and
\* the next one, with a marker in its message and a plain raw text, has
\* had its marker dispatched
C19_Witness ==
  /\ pc = "await"
  /\ Len(stack) = 1
  /\ Top.choices =
       <<Choice(NoMessage, NoText), Choice(SomeMessage(TCalc), SomeText(TPlain))>>
  /\ Top.i = 2
  /\ EventsAt(<<1>>) = <<>>
  /\ Len(OfKind(EventsAt(<<2>>), "send")) = 1

\* the request a turn opens with, written out for the input x
OpeningRequest(x) ==
  [model |-> "llama-3.3-70b-versatile",
   messages |-> <<[role |-> "system", content |-> SystemPrompt],
                  [role |-> "user", content |-> x]>>,
   tools |-> Tools,
   tool_choice |-> "auto"]

\* C20: no request holds anything of what went before.  Whatever the turn
\* before has left, the request that opens a turn is the system message
\* followed by the trimmed line just read and nothing else; it is the only
\* request of the turn with more than one message; and every follow-up
\* holds exactly one message, the result the handler returned for the
\* marker of the choice that caused it.
C20_NoCarriedState ==
  /\ [][(pc = "prompt" /\ pc' = "await") =>
          \E line \in UserInputs :
            /\ inflight' = <<OpeningRequest(Trim(line))>>
            /\ log' = <<LogEv("send", <<>>, <<>>, OpeningRequest(Trim(line)))>>]_vars
  /\ [](/\ \A m \in 1..Len(log) :
             log[m].kind = "send" =>
               IF log[m].path = <<>>
               THEN m = 1 /\ Len(log[m].req.messages) = 2
               ELSE /\ Len(log[m].req.messages) = 1
                    /\ log[m].req.messages[1].role = "user"
                    /\ log[m].req.tools = <<>>
        /\ \A a \in Choices :
             LET c == stack[a[1]].choices[a[2]]
                 sends == OfKind(EventsAt(Addr(a[1], a[2])), "send")
             IN (Started(a[1], a[2]) /\ c.message.some
                 /\ ValidMarker(c.message.content)) =>
                  /\ Len(sends) = 1
                  /\ sends[1].req.messages[1].content =
                       handle_calculate(FromStr(Captures(c.message.content).params).val).text)

\* two follow-ups of one turn, the second caused by the response to the
\* first: each holds its own result only
C20_Witness ==
  /\ pc = "await"
  /\ Len(stack) = 2
  /\ \E m, n \in 1..Len(log) :
       /\ log[m].kind = "send" /\ log[m].path = <<stack[1].i>>
       /\ log[n].kind = "send" /\ log[n].path = <<stack[1].i, stack[2].i>>
       /\ log[m].req.messages # log[n].req.messages
       /\ inflight = <<log[n].req>>

====
